---- MODULE Spec2Model ----
(***************************************************************************)
(* Authentication and session lifecycle of the DropLink backend            *)
(* (src/backend/main.py): account lockout in login / unlock_account, and   *)
(* JWT issuance / verification with key rotation.                          *)
(*                                                                         *)
(* Time is counted in ticks of 1/TicksPerSecond seconds, so that the       *)
(* truncations to whole seconds made by the code are visible.              *)
(***************************************************************************)
EXTENDS Integers, FiniteSets, Sequences, TLC

\* ---------------------------------------------------------------- bounds
TicksPerSecond == 2
MaxClockSteps == 2
EvalCap == 5
MaxTokens == 2
MaxVersion == 3
MaxUsers == 2

\* ------------------------------------------------------------- constants
LOCKOUT_THRESHOLD == 5
LOCK_MINUTES == 15
ACCESS_TOKEN_EXPIRE_DAYS == 30
ACTIVITY_TIMEOUT_MINUTES == 30
REMEMBER_ME_TIMEOUT_DAYS == 30
NULL == -1

LockTicks == LOCK_MINUTES * 60 * TicksPerSecond
ExpireTicks == ACCESS_TOKEN_EXPIRE_DAYS * 86400 * TicksPerSecond
ActivityTicks == ACTIVITY_TIMEOUT_MINUTES * 60 * TicksPerSecond
RememberTicks == REMEMBER_ME_TIMEOUT_DAYS * 86400 * TicksPerSecond

\* the login requests that can be in flight at once (two worker threads)
Reqs == {"r1", "r2"}

VARIABLES
    users,       \* users table: id -> row
    pc,          \* position of each login request
    req,         \* locals of each login request
    lastResp,    \* the login response sent last, with the request it answers
    evaluated,   \* history: failed password checks since the last reset, per user
    SECRET_KEY,            \* JWT_SECRET_KEY of the running service
    PREVIOUS_SECRET_KEY,   \* PREVIOUS_JWT_SECRET_KEY, NULL when not configured
    CURRENT_KEY_VERSION,   \* JWT_KEY_VERSION
    tokens,      \* the tokens held by clients
    lastVerify,  \* the token verify_token was called on last, and what it returned
    tz_offset,   \* local time zone of the server: local time - UTC, in ticks
    lastReply,   \* the response of the last refresh_token or rotate_jwt_keys call
    verification_codes,    \* verification_codes table: a set of rows
    USE_POSTGRES,          \* TRUE: PostgreSQL (DATABASE_URL set); FALSE: SQLite
    user_profiles,         \* user_profiles table: user_id -> row
    lastCode,    \* the response of the last call of a verification code endpoint
    now,         \* wall clock, in ticks
    clockSteps   \* number of clock advances so far

lockVars == <<users, pc, req, lastResp, evaluated>>
keyVars == <<SECRET_KEY, PREVIOUS_SECRET_KEY, CURRENT_KEY_VERSION, tz_offset>>
tokVars == <<SECRET_KEY, PREVIOUS_SECRET_KEY, CURRENT_KEY_VERSION, tz_offset,
             tokens, lastVerify, lastReply>>
dbVars == <<USE_POSTGRES, user_profiles>>
codeVars == <<verification_codes, dbVars, lastCode>>
vars == <<users, pc, req, lastResp, evaluated,
          SECRET_KEY, PREVIOUS_SECRET_KEY, CURRENT_KEY_VERSION, tokens, lastVerify,
          tz_offset, lastReply, verification_codes, USE_POSTGRES, user_profiles,
          lastCode,
          now, clockSteps>>

\* ------------------------------------------------------------ data model
UserIds == {1}
Usernames == {"alice", "ALICE", "mallory"}
Passwords == {"Str0ng!Pass", "wrong"}
Emails == {"alice@x.com", ""}

\* str.lower() on the usernames of the model
Lower(u) == IF u = "ALICE" THEN "alice" ELSE u

\* bcrypt: a hash is the salt together with the password it was made from
hash_password(p, salt) == <<salt, p>>
verify_password(p, h) == h[2] = p

NoRow == 0

\* SELECT ... FROM users WHERE LOWER(username) = ?
FindUser(uname) ==
    IF \E i \in UserIds : Lower(users[i].username) = uname
    THEN CHOOSE i \in UserIds : Lower(users[i].username) = uname
    ELSE NoRow

NoReq == [username |-> "", password |-> "", user_id |-> NoRow,
          password_hash |-> <<>>, email |-> "",
          failed_attempts |-> 0, locked_until |-> NULL]

NoResp == [outcome |-> "none", status |-> 0, hint |-> NULL,
           retry_after |-> NULL, token |-> FALSE, emails_sent |-> 0,
           username |-> "", password |-> ""]

\* now < locked_until: the lock read from the row is still running at time t
M_StillLocked_Inclusive(locked_until, t) == t <= locked_until
M_StillLocked_Early(locked_until, t) == t < locked_until - 1
StillLocked(locked_until, t) == t < locked_until

\* int((locked_until - now).total_seconds())
M_RemainingSeconds_RoundUp(locked_until, t) ==
    (locked_until - t + TicksPerSecond - 1) \div TicksPerSecond
RemainingSeconds(locked_until, t) == (locked_until - t) \div TicksPerSecond

\* the responses of login
RespUserNotFound ==
    [NoResp EXCEPT !.outcome = "user_not_found", !.status = 401]

RespStillLocked(remaining_seconds) ==
    [NoResp EXCEPT !.outcome = "account_locked", !.status = 423,
                   !.retry_after = remaining_seconds]

RespLockedNow(sent) ==
    [NoResp EXCEPT !.outcome = "locked_now", !.status = 423,
                   !.retry_after = LOCK_MINUTES * 60,
                   !.emails_sent = sent]

RespInvalidPassword(failed_attempts) ==
    [NoResp EXCEPT !.outcome = "invalid_password", !.status = 401,
                   !.hint = LOCKOUT_THRESHOLD - failed_attempts]

RespSuccess ==
    [NoResp EXCEPT !.outcome = "login_success", !.status = 200,
                   !.token = TRUE]

\* UPDATE users SET failed_login_attempts = 0, locked_until = NULL WHERE id = ?
ResetLockout(i) ==
    [users EXCEPT ![i].failed_login_attempts = 0, ![i].locked_until = NULL]

Bump(n) == IF n < EvalCap THEN n + 1 ELSE EvalCap

\* the response, together with the credentials of the request it answers
Answer(username, password, response) ==
    [response EXCEPT !.username = username, !.password = password]

\* ------------------------------------------------------------------ Init
NoVerify == [token |-> <<>>, result |-> "none", used_previous_key |-> FALSE]

NoReply == [op |-> "none", presented |-> <<>>, status |-> 0, detail |-> "",
            token |-> <<>>, new_jwt_secret |-> NULL, previous_jwt_secret |-> NULL,
            current_key_version |-> NULL, new_key_version |-> NULL]

\* the service as configured by default, on a server whose clock is UTC
TokInit ==
    /\ SECRET_KEY = 1
    /\ PREVIOUS_SECRET_KEY = NULL
    /\ CURRENT_KEY_VERSION = 1
    /\ tz_offset = 0
    /\ tokens = {}
    /\ lastVerify = NoVerify
    /\ lastReply = NoReply

NoCode == [op |-> "none", email |-> "", code_type |-> "", code |-> "",
           status |-> 0, detail |-> ""]

\* no verification code and no profile is stored; SQLite, the default database
CodesInit ==
    /\ verification_codes = {}
    /\ USE_POSTGRES = FALSE
    /\ user_profiles = <<>>
    /\ lastCode = NoCode

Init ==
    /\ TokInit
    /\ CodesInit
    /\ \E e \in Emails :
         users = [i \in UserIds |->
                    [username |-> "alice",
                     password_hash |-> hash_password("Str0ng!Pass", "salt"),
                     email |-> e,
                     failed_login_attempts |-> 0,
                     locked_until |-> NULL]]
    /\ pc = [r \in Reqs |-> "idle"]
    /\ req = [r \in Reqs |-> NoReq]
    /\ lastResp = NoResp
    /\ evaluated = [i \in UserIds |-> 0]
    /\ now = 0
    /\ clockSteps = 0

\* --------------------------------------------------------------- actions
\* login, up to the SELECT of the user row (and the 401 when there is none)
LoginSelect(r, u, p) ==
    /\ pc[r] = "idle"
    /\ LET username_lower == Lower(u)
           i == FindUser(username_lower)
       IN IF i = NoRow
          THEN /\ lastResp' = Answer(username_lower, p, RespUserNotFound)
               /\ UNCHANGED <<pc, req>>
          ELSE /\ req' = [req EXCEPT ![r] =
                            [username |-> username_lower,
                             password |-> p,
                             user_id |-> i,
                             password_hash |-> users[i].password_hash,
                             email |-> users[i].email,
                             failed_attempts |-> users[i].failed_login_attempts,
                             locked_until |-> users[i].locked_until]]
               /\ pc' = [pc EXCEPT ![r] = "selected"]
               /\ UNCHANGED lastResp
    /\ UNCHANGED <<users, evaluated, now, clockSteps, tokVars, codeVars>>

\* login, the lock check made when the row read has a locked_until
LoginCheckLock(r) ==
    /\ pc[r] = "selected"
    /\ req[r].locked_until # NULL
    /\ IF StillLocked(req[r].locked_until, now)
       THEN /\ lastResp' = Answer(req[r].username, req[r].password,
                   RespStillLocked(RemainingSeconds(req[r].locked_until, now)))
            /\ pc' = [pc EXCEPT ![r] = "idle"]
            /\ req' = [req EXCEPT ![r] = NoReq]
            /\ UNCHANGED <<users, evaluated>>
       ELSE /\ users' = ResetLockout(req[r].user_id)
            /\ req' = [req EXCEPT ![r].failed_attempts = 0]
            /\ evaluated' = [evaluated EXCEPT ![req[r].user_id] = 0]
            /\ pc' = [pc EXCEPT ![r] = "checked"]
            /\ UNCHANGED lastResp
    /\ UNCHANGED <<now, clockSteps, tokVars, codeVars>>

\* login, the password check and the UPDATE that follows it
LoginVerifyPassword(r) ==
    /\ \/ pc[r] = "checked"
       \/ pc[r] = "selected" /\ req[r].locked_until = NULL
    /\ LET i == req[r].user_id
           failed_attempts == req[r].failed_attempts + 1
       IN IF ~verify_password(req[r].password, req[r].password_hash)
          THEN /\ evaluated' = [evaluated EXCEPT ![i] = Bump(@)]
               /\ IF failed_attempts >= LOCKOUT_THRESHOLD
                  THEN /\ users' = [users EXCEPT
                              ![i].failed_login_attempts = failed_attempts,
                              ![i].locked_until = now + LockTicks]
                       /\ lastResp' = Answer(req[r].username, req[r].password,
                              RespLockedNow(IF req[r].email # "" THEN 1 ELSE 0))
                  ELSE /\ users' = [users EXCEPT
                              ![i].failed_login_attempts = failed_attempts]
                       /\ lastResp' = Answer(req[r].username, req[r].password,
                              RespInvalidPassword(failed_attempts))
          ELSE /\ users' = ResetLockout(i)
               /\ evaluated' = [evaluated EXCEPT ![i] = 0]
               /\ lastResp' = Answer(req[r].username, req[r].password, RespSuccess)
    /\ pc' = [pc EXCEPT ![r] = "idle"]
    /\ req' = [req EXCEPT ![r] = NoReq]
    /\ UNCHANGED <<now, clockSteps, tokVars, codeVars>>

\* unlock_account, called by any authenticated user (404 for an unknown name)
UnlockAccount(u) ==
    /\ LET i == FindUser(Lower(u))
       IN IF i = NoRow
          THEN UNCHANGED <<users, evaluated>>
          ELSE /\ users' = ResetLockout(i)
               /\ evaluated' = [evaluated EXCEPT ![i] = 0]
    /\ UNCHANGED <<pc, req, lastResp, now, clockSteps, tokVars, codeVars>>

Durations == {1, LockTicks - 1}

Tick(d) ==
    /\ clockSteps < MaxClockSteps
    /\ now' = now + d
    /\ clockSteps' = clockSteps + 1
    /\ UNCHANGED <<lockVars, tokVars, codeVars>>

Next ==
    \/ \E r \in Reqs, u \in Usernames, p \in Passwords : LoginSelect(r, u, p)
    \/ \E r \in Reqs : LoginCheckLock(r)
    \/ \E r \in Reqs : LoginVerifyPassword(r)
    \/ \E u \in Usernames : UnlockAccount(u)
    \/ \E d \in Durations : Tick(d)

Spec == Init /\ [][Next]_vars

\* ------------------------------------------------ tokens and signing keys
SecretIds == 1..MaxVersion
Versions == 1..MaxVersion

\* datetime.timestamp() of the naive datetime utcnow(): a naive datetime is
\* read as local time, so the POSIX time returned is the UTC time t minus the
\* UTC offset of the server's time zone
timestamp(t, offset) == t - offset

\* datetime.utcfromtimestamp(ts): the naive UTC datetime of POSIX time ts
utcfromtimestamp(ts) == ts

\* jwt.encode of the payload of create_access_token; exp is a datetime, which
\* jwt.encode stores as whole seconds
create_access_token(user_id, username, remember_me, secret, version, t, offset) ==
    [sig |-> secret,
     user_id |-> user_id,
     username |-> username,
     exp |-> ((t + ExpireTicks) \div TicksPerSecond) * TicksPerSecond,
     iat |-> timestamp(t, offset),
     last_activity |-> timestamp(t, offset),
     remember_me |-> remember_me,
     key_version |-> version]

\* whether jwt.decode finds exp passed at time t: it compares whole seconds,
\* so within the second of exp the outcome depends on the library version
ExpiredChoices(tok, t) ==
    IF t < tok.exp THEN {FALSE}
    ELSE IF t >= tok.exp + TicksPerSecond THEN {TRUE}
    ELSE BOOLEAN

\* whether jwt.decode finds iat in the future at time t: library versions
\* differ on whether a token issued in the future is rejected
ImmatureChoices(tok, t) ==
    IF tok.iat > t THEN BOOLEAN ELSE {FALSE}

\* jwt.decode(token, key): the signature is checked before the claims; a
\* rejected iat is an InvalidTokenError
jwt_decode(tok, key, expired, immature) ==
    IF tok.sig # key THEN "InvalidTokenError"
    ELSE IF immature THEN "InvalidTokenError"
    ELSE IF expired THEN "ExpiredSignatureError"
    ELSE "payload"

\* the two decoding attempts of verify_token: current key, then previous key
M_DecodeWithKeys_NoGrace(tok, secret, previous, expired, immature) ==
    LET first == jwt_decode(tok, secret, expired, immature)
    IN [status |-> first, used_previous_key |-> FALSE]
DecodeWithKeys(tok, secret, previous, expired, immature) ==
    LET first == jwt_decode(tok, secret, expired, immature)
    IN IF first # "InvalidTokenError"
       THEN [status |-> first, used_previous_key |-> FALSE]
       ELSE IF previous # NULL
            THEN [status |-> jwt_decode(tok, previous, expired, immature),
                  used_previous_key |-> jwt_decode(tok, previous, expired, immature) = "payload"]
            ELSE [status |-> "InvalidTokenError", used_previous_key |-> FALSE]

\* the key version check of verify_token
M_KeyVersionOk_Strict(token_key_version, version, used_previous_key) ==
    \/ ~used_previous_key /\ token_key_version = version
    \/ used_previous_key /\ token_key_version = version - 1
KeyVersionOk(token_key_version, version, used_previous_key) ==
    \/ token_key_version = version
    \/ used_previous_key /\ token_key_version = version - 1

\* the activity check of verify_token
M_SessionInactive_OneTimeout(tok, t) ==
    /\ tok.last_activity # 0
    /\ t - utcfromtimestamp(tok.last_activity) > ActivityTicks
SessionInactive(tok, t) ==
    /\ tok.last_activity # 0
    /\ t - utcfromtimestamp(tok.last_activity) >
         (IF tok.remember_me THEN RememberTicks ELSE ActivityTicks)

\* verify_token(token) with check_activity and check_key_version left True
verify_token(tok, secret, previous, version, t, expired, immature) ==
    LET d == DecodeWithKeys(tok, secret, previous, expired, immature)
    IN IF d.status = "ExpiredSignatureError"
       THEN [result |-> "Token has expired", used_previous_key |-> d.used_previous_key]
       ELSE IF d.status = "InvalidTokenError"
       THEN [result |-> "Invalid token", used_previous_key |-> d.used_previous_key]
       ELSE IF ~KeyVersionOk(tok.key_version, version, d.used_previous_key)
       THEN [result |-> "Token has been invalidated",
             used_previous_key |-> d.used_previous_key]
       ELSE IF SessionInactive(tok, t)
       THEN [result |-> "Session expired due to inactivity",
             used_previous_key |-> d.used_previous_key]
       ELSE [result |-> "payload", used_previous_key |-> d.used_previous_key]

LockIdle ==
    /\ users = [i \in UserIds |->
                  [username |-> "alice",
                   password_hash |-> hash_password("Str0ng!Pass", "salt"),
                   email |-> "alice@x.com",
                   failed_login_attempts |-> 0,
                   locked_until |-> NULL]]
    /\ pc = [r \in Reqs |-> "idle"]
    /\ req = [r \in Reqs |-> NoReq]
    /\ lastResp = NoResp
    /\ evaluated = [i \in UserIds |-> 0]

StartTimes == {TicksPerSecond, TicksPerSecond + 1}

InitToken ==
    /\ LockIdle
    /\ TokInit
    /\ CodesInit
    /\ now \in StartTimes
    /\ clockSteps = 0

\* a successful login or register hands a new token to the client
IssueToken(i, remember_me) ==
    /\ Cardinality(tokens) < MaxTokens
    /\ tokens' = tokens \cup
         {create_access_token(i, users[i].username, remember_me,
                              SECRET_KEY, CURRENT_KEY_VERSION, now, tz_offset)}
    /\ lastVerify' = NoVerify
    /\ lastReply' = NoReply
    /\ UNCHANGED <<lockVars, keyVars, codeVars, now, clockSteps>>

\* a protected endpoint is called with token tok: get_current_user -> verify_token
VerifyToken(tok) ==
    /\ \E expired \in ExpiredChoices(tok, now), immature \in ImmatureChoices(tok, now) :
         LET v == verify_token(tok, SECRET_KEY, PREVIOUS_SECRET_KEY,
                               CURRENT_KEY_VERSION, now, expired, immature)
         IN lastVerify' = [token |-> tok, result |-> v.result,
                           used_previous_key |-> v.used_previous_key]
    /\ lastReply' = NoReply
    /\ UNCHANGED <<lockVars, keyVars, codeVars, tokens, now, clockSteps>>

\* the operator carries out the instructions returned by rotate_jwt_keys:
\* a fresh secret, the present secret as the previous one, the version + 1
ApplyRotation ==
    /\ CURRENT_KEY_VERSION < MaxVersion
    /\ SECRET_KEY' = SECRET_KEY + 1
    /\ PREVIOUS_SECRET_KEY' = SECRET_KEY
    /\ CURRENT_KEY_VERSION' = CURRENT_KEY_VERSION + 1
    /\ lastVerify' = NoVerify
    /\ lastReply' = NoReply
    /\ UNCHANGED <<lockVars, tz_offset, codeVars, tokens, now, clockSteps>>

\* the operator removes PREVIOUS_JWT_SECRET_KEY: the grace period ends
EndGrace ==
    /\ PREVIOUS_SECRET_KEY # NULL
    /\ PREVIOUS_SECRET_KEY' = NULL
    /\ lastVerify' = NoVerify
    /\ lastReply' = NoReply
    /\ UNCHANGED <<lockVars, SECRET_KEY, CURRENT_KEY_VERSION, tz_offset, codeVars,
                   tokens, now, clockSteps>>

TokenDurations == {1, ActivityTicks, ExpireTicks}

TickToken(d) ==
    /\ clockSteps < MaxClockSteps
    /\ now' = now + d
    /\ clockSteps' = clockSteps + 1
    /\ lastVerify' = NoVerify
    /\ lastReply' = NoReply
    /\ UNCHANGED <<lockVars, keyVars, codeVars, tokens>>

NextToken ==
    \/ \E i \in UserIds, remember_me \in BOOLEAN : IssueToken(i, remember_me)
    \/ \E tok \in tokens : VerifyToken(tok)
    \/ ApplyRotation
    \/ EndGrace
    \/ \E d \in TokenDurations : TickToken(d)

SpecToken == InitToken /\ [][NextToken]_vars

\* the time zones a server may run in: UTC, one hour east, one hour west
HourTicks == 3600 * TicksPerSecond
UtcOffsets == {0, HourTicks, -HourTicks}

\* the reply of refresh_token / rotate_jwt_keys to a token that fails verify_token
Rejected(op, tok, detail) ==
    [NoReply EXCEPT !.op = op, !.presented = tok, !.status = 401, !.detail = detail]

\* POST /auth/refresh with "Bearer tok"
RefreshToken(tok) ==
    /\ \E expired \in ExpiredChoices(tok, now), immature \in ImmatureChoices(tok, now) :
         LET v == verify_token(tok, SECRET_KEY, PREVIOUS_SECRET_KEY,
                               CURRENT_KEY_VERSION, now, expired, immature)
             user_id == tok.user_id
             remember_me == tok.remember_me
         IN IF v.result # "payload"
            THEN /\ lastReply' = Rejected("refresh", tok, v.result)
                 /\ UNCHANGED tokens
            ELSE IF user_id \notin DOMAIN users
            THEN /\ lastReply' = [NoReply EXCEPT !.op = "refresh", !.presented = tok,
                                                  !.status = 404, !.detail = "User not found"]
                 /\ UNCHANGED tokens
            ELSE LET new_token == create_access_token(user_id, users[user_id].username,
                                      remember_me, SECRET_KEY, CURRENT_KEY_VERSION,
                                      now, tz_offset)
                 IN /\ Cardinality(tokens \cup {new_token}) <= MaxTokens
                    /\ tokens' = tokens \cup {new_token}
                    /\ lastReply' = [NoReply EXCEPT !.op = "refresh", !.presented = tok,
                                                     !.status = 200, !.token = new_token]
    /\ lastVerify' = NoVerify
    /\ UNCHANGED <<lockVars, keyVars, codeVars, now, clockSteps>>

\* secrets.token_urlsafe(32): a secret that is not in use
FreshSecrets == 1..(MaxVersion + 1)

\* POST /admin/rotate-keys with "Bearer tok"
M_RotateKeys_Applies(tok, new_secret) ==
    /\ new_secret \notin {SECRET_KEY, PREVIOUS_SECRET_KEY}
    /\ \E expired \in ExpiredChoices(tok, now), immature \in ImmatureChoices(tok, now) :
         LET v == verify_token(tok, SECRET_KEY, PREVIOUS_SECRET_KEY,
                               CURRENT_KEY_VERSION, now, expired, immature)
         IN IF v.result # "payload"
            THEN /\ lastReply' = Rejected("rotate", tok, v.result)
                 /\ UNCHANGED <<SECRET_KEY, PREVIOUS_SECRET_KEY, CURRENT_KEY_VERSION>>
            ELSE /\ lastReply' =
                      [NoReply EXCEPT !.op = "rotate", !.presented = tok, !.status = 200,
                                      !.current_key_version = CURRENT_KEY_VERSION,
                                      !.new_key_version = CURRENT_KEY_VERSION + 1,
                                      !.new_jwt_secret = new_secret,
                                      !.previous_jwt_secret = SECRET_KEY]
                 /\ SECRET_KEY' = new_secret
                 /\ PREVIOUS_SECRET_KEY' = SECRET_KEY
                 /\ CURRENT_KEY_VERSION' = CURRENT_KEY_VERSION + 1
    /\ lastVerify' = NoVerify
    /\ UNCHANGED <<lockVars, tz_offset, codeVars, tokens, now, clockSteps>>
RotateKeys(tok, new_secret) ==
    /\ new_secret \notin {SECRET_KEY, PREVIOUS_SECRET_KEY}
    /\ \E expired \in ExpiredChoices(tok, now), immature \in ImmatureChoices(tok, now) :
         LET v == verify_token(tok, SECRET_KEY, PREVIOUS_SECRET_KEY,
                               CURRENT_KEY_VERSION, now, expired, immature)
             new_key_version == CURRENT_KEY_VERSION + 1
         IN IF v.result # "payload"
            THEN lastReply' = Rejected("rotate", tok, v.result)
            ELSE lastReply' =
                   [NoReply EXCEPT !.op = "rotate", !.presented = tok, !.status = 200,
                                   !.current_key_version = CURRENT_KEY_VERSION,
                                   !.new_key_version = new_key_version,
                                   !.new_jwt_secret = new_secret,
                                   !.previous_jwt_secret = SECRET_KEY]
    /\ lastVerify' = NoVerify
    /\ UNCHANGED <<lockVars, keyVars, codeVars, tokens, now, clockSteps>>

\* verify_token as a function of its inputs: any environment, and any token
\* that create_access_token has made under some environment at some time
VerifyTime == ExpireTicks + 2 * TicksPerSecond

IssueTimes ==
    {VerifyTime, VerifyTime - 1, VerifyTime - ActivityTicks,
     VerifyTime - ActivityTicks - 1, VerifyTime - ExpireTicks,
     VerifyTime - ExpireTicks - 1, VerifyTime - ExpireTicks - TicksPerSecond}

InitVerify ==
    /\ LockIdle
    /\ CodesInit
    /\ tz_offset \in UtcOffsets
    /\ lastReply = NoReply
    /\ SECRET_KEY \in SecretIds
    /\ PREVIOUS_SECRET_KEY \in SecretIds \cup {NULL}
    /\ CURRENT_KEY_VERSION \in Versions
    /\ \E s \in SecretIds, v \in Versions, remember_me \in BOOLEAN, t \in IssueTimes :
         tokens = {create_access_token(1, "alice", remember_me, s, v, t, tz_offset)}
    /\ lastVerify = NoVerify
    /\ now = VerifyTime
    /\ clockSteps = 0

NextVerify ==
    \/ \E tok \in tokens : VerifyToken(tok)
    \/ \E tok \in tokens, new_secret \in FreshSecrets : RotateKeys(tok, new_secret)

SpecVerify == InitVerify /\ [][NextVerify]_vars

\* ------------------------------------------- register and change_username
\* the names asked for by register and change_username requests
NewNames == {"ALICE", "mallory"}

\* SELECT id FROM users WHERE LOWER(username) = ? [AND id != ?]
NameTaken(username_lower, except) ==
    \E i \in DOMAIN users : i # except /\ Lower(users[i].username) = username_lower

\* username TEXT UNIQUE: the constraint compares the stored names as they are
UniqueViolation(username, except) ==
    \E i \in DOMAIN users : i # except /\ users[i].username = username

\* str.lower() / LOWER() on the email addresses of the model
LowerEmail(e) == IF e = "Bob@x.com" THEN "bob@x.com" ELSE e

\* the validator of RegisterRequest.email: '' is None, the rest is lowercased
validate_email_format(email) == IF email = "" THEN "" ELSE LowerEmail(email)

\* SELECT id FROM users WHERE LOWER(email) = ?
EmailTaken(email) ==
    \E i \in DOMAIN users : LowerEmail(users[i].email) = LowerEmail(email)

EXEMPT_EMAIL == "caitie690@gmail.com"

RespNotAuthenticated ==
    [NoResp EXCEPT !.outcome = "not_authenticated", !.status = 401]

RespUsernameTaken ==
    [NoResp EXCEPT !.outcome = "username_taken", !.status = 400]

RespEmailExists ==
    [NoResp EXCEPT !.outcome = "email_exists", !.status = 400]

\* except Exception: HTTPException(status_code=500)
RespServerError ==
    [NoResp EXCEPT !.outcome = "server_error", !.status = 500]

RespRegistered ==
    [NoResp EXCEPT !.outcome = "registered", !.status = 200, !.token = TRUE]

RespUsernameChanged ==
    [NoResp EXCEPT !.outcome = "username_changed", !.status = 200, !.token = TRUE]

\* register up to the two SELECTs that look for the name and the email
RegisterSelect(r, username, password, email) ==
    /\ pc[r] = "idle"
    /\ LET username_lower == Lower(username)
           request_email == validate_email_format(email)
       IN IF NameTaken(username_lower, NoRow)
          THEN /\ lastResp' = Answer(username, password, RespUsernameTaken)
               /\ UNCHANGED <<pc, req>>
          ELSE IF /\ request_email # ""
                  /\ LowerEmail(request_email) # EXEMPT_EMAIL
                  /\ EmailTaken(request_email)
          THEN /\ lastResp' = Answer(username, password, RespEmailExists)
               /\ UNCHANGED <<pc, req>>
          ELSE /\ pc' = [pc EXCEPT ![r] = "reg_selected"]
               /\ req' = [req EXCEPT ![r] =
                            [NoReq EXCEPT !.username = username_lower,
                                          !.password = password,
                                          !.email = request_email]]
               /\ UNCHANGED lastResp
    /\ UNCHANGED <<users, evaluated, now, clockSteps, tokVars, codeVars>>

\* register from the INSERT INTO users to the response
RegisterInsert(r) ==
    /\ pc[r] = "reg_selected"
    /\ IF UniqueViolation(req[r].username, NoRow)
       THEN /\ lastResp' = Answer(req[r].username, req[r].password, RespServerError)
            /\ UNCHANGED <<users, tokens>>
       ELSE LET user_id == Cardinality(DOMAIN users) + 1
                row == [username |-> req[r].username,
                        password_hash |-> hash_password(req[r].password, "salt"),
                        email |-> req[r].email,
                        failed_login_attempts |-> 0,
                        locked_until |-> NULL]
                token == create_access_token(user_id, req[r].username, FALSE, SECRET_KEY,
                                             CURRENT_KEY_VERSION, now, tz_offset)
            IN /\ user_id <= MaxUsers
               /\ Cardinality(tokens \cup {token}) <= MaxTokens
               /\ users' = [i \in DOMAIN users \cup {user_id} |->
                              IF i = user_id THEN row ELSE users[i]]
               /\ tokens' = tokens \cup {token}
               /\ lastResp' = Answer(req[r].username, req[r].password, RespRegistered)
    /\ pc' = [pc EXCEPT ![r] = "idle"]
    /\ req' = [req EXCEPT ![r] = NoReq]
    /\ lastVerify' = NoVerify
    /\ lastReply' = NoReply
    /\ UNCHANGED <<evaluated, keyVars, codeVars, now, clockSteps>>

\* change_username with "Bearer tok", up to the SELECT that looks for the name
ChangeUsernameSelect(r, tok, new_username) ==
    /\ pc[r] = "idle"
    /\ \E expired \in ExpiredChoices(tok, now), immature \in ImmatureChoices(tok, now) :
         LET v == verify_token(tok, SECRET_KEY, PREVIOUS_SECRET_KEY,
                               CURRENT_KEY_VERSION, now, expired, immature)
             user_id == tok.user_id
             new_username_lower == Lower(new_username)
         IN IF v.result # "payload"
            THEN /\ lastResp' = Answer(new_username, "", RespNotAuthenticated)
                 /\ UNCHANGED <<pc, req>>
            ELSE IF NameTaken(new_username_lower, user_id)
            THEN /\ lastResp' = Answer(new_username, "", RespUsernameTaken)
                 /\ UNCHANGED <<pc, req>>
            ELSE /\ pc' = [pc EXCEPT ![r] = "cu_selected"]
                 /\ req' = [req EXCEPT ![r] =
                              [NoReq EXCEPT !.username = new_username_lower,
                                            !.user_id = user_id]]
                 /\ UNCHANGED lastResp
    /\ UNCHANGED <<users, evaluated, now, clockSteps, tokVars, codeVars>>

\* change_username from the UPDATE users to the response
ChangeUsernameUpdate(r) ==
    /\ pc[r] = "cu_selected"
    /\ LET user_id == req[r].user_id
           new_username_lower == req[r].username
           token == create_access_token(user_id, new_username_lower, FALSE, SECRET_KEY,
                                        CURRENT_KEY_VERSION, now, tz_offset)
       IN IF UniqueViolation(new_username_lower, user_id)
          THEN /\ lastResp' = Answer(new_username_lower, "", RespServerError)
               /\ UNCHANGED <<users, tokens>>
          ELSE /\ Cardinality(tokens \cup {token}) <= MaxTokens
               /\ users' = [users EXCEPT ![user_id].username = new_username_lower]
               /\ tokens' = tokens \cup {token}
               /\ lastResp' = Answer(new_username_lower, "", RespUsernameChanged)
    /\ pc' = [pc EXCEPT ![r] = "idle"]
    /\ req' = [req EXCEPT ![r] = NoReq]
    /\ lastVerify' = NoVerify
    /\ lastReply' = NoReply
    /\ UNCHANGED <<evaluated, keyVars, codeVars, now, clockSteps>>

\* ------------------------------------------------------ verification codes
CODE_MINUTES == 10
CodeTicks == CODE_MINUTES * 60 * TicksPerSecond

CodeEmails == {"alice@x.com"}
Codes == {"111111", "222222"}
RecoveryTypes == {"password", "username"}
NewPasswords == {"N3w!Passw0rd", "short"}

\* f'recovery_{type}'
RecoveryCodeType(type) ==
    IF type = "password" THEN "recovery_password" ELSE "recovery_username"

\* the rows WHERE email = ? AND code_type = ?
CodeRows(email, code_type) ==
    {row \in verification_codes : row.email = email /\ row.code_type = code_type}

\* ... ORDER BY created_at DESC LIMIT 1: any of the rows created last
LatestCodes(email, code_type) ==
    {row \in CodeRows(email, code_type) :
        \A other \in CodeRows(email, code_type) : other.created_at <= row.created_at}

\* verify_recovery_code deletes the code it accepted: if type == 'username'
M_DeletesOnSuccess_Always(type) == TRUE
DeletesOnSuccess(type) == type = "username"

\* datetime.now() > expires_at
M_CodeExpired_Never(row, t) == FALSE
M_CodeExpired_Early(row, t) == t >= row.expires_at
CodeExpired(row, t) == t > row.expires_at

\* SELECT id, username FROM users WHERE email = ?
UsersWithEmail(email) == {i \in DOMAIN users : users[i].email = email}

\* the five checks reset_password makes on new_password, on the passwords of the model
MeetsResetPolicy(new_password) == new_password \notin {"short", "wrong"}

\* a request holds the write lock of the SQLite file from its DELETE to its commit
WriteLocked(r) ==
    /\ ~USE_POSTGRES
    /\ \E other \in Reqs \ {r} : pc[other] = "send_deleted"

CodeReply(op, email, code_type, code, status, detail) ==
    [op |-> op, email |-> email, code_type |-> code_type, code |-> code,
     status |-> status, detail |-> detail]

\* send_verification_code up to its DELETE
SendVerificationDelete(r, email, code) ==
    /\ pc[r] = "idle"
    /\ ~WriteLocked(r)
    /\ pc' = [pc EXCEPT ![r] = "send_deleted"]
    /\ req' = [req EXCEPT ![r] =
                 [op |-> "send_verification", email |-> email, code |-> code,
                  code_type |-> "registration", expires_at |-> now + CodeTicks,
                  created_at |-> now,
                  deleted |-> {row \in verification_codes : row.email = email}]]
    /\ lastCode' = NoCode
    /\ UNCHANGED <<users, lastResp, evaluated, now, clockSteps, tokVars,
                   verification_codes, dbVars>>

\* send_recovery_code up to its DELETE
SendRecoveryDelete(r, email, type, code) ==
    /\ pc[r] = "idle"
    /\ IF UsersWithEmail(email) = {}
       THEN /\ lastCode' = CodeReply("send_recovery", email, RecoveryCodeType(type), code,
                                     404, "No account found with this email address")
            /\ UNCHANGED <<pc, req>>
       ELSE /\ ~WriteLocked(r)
            /\ pc' = [pc EXCEPT ![r] = "send_deleted"]
            /\ req' = [req EXCEPT ![r] =
                         [op |-> "send_recovery", email |-> email, code |-> code,
                          code_type |-> RecoveryCodeType(type),
                          expires_at |-> now + CodeTicks,
                          created_at |-> now,
                          deleted |-> CodeRows(email, RecoveryCodeType(type))]]
            /\ lastCode' = NoCode
    /\ UNCHANGED <<users, lastResp, evaluated, now, clockSteps, tokVars,
                   verification_codes, dbVars>>

\* either send handler from its INSERT to its response: the commit makes the
\* DELETE and the INSERT visible to the other connections
SendInsert(r) ==
    /\ pc[r] = "send_deleted"
    /\ verification_codes' =
         (verification_codes \ req[r].deleted) \cup
         {[email |-> req[r].email, code |-> req[r].code,
           code_type |-> req[r].code_type, expires_at |-> req[r].expires_at,
           created_at |-> req[r].created_at]}
    /\ lastCode' = CodeReply(req[r].op, req[r].email, req[r].code_type, req[r].code,
                             200, "sent")
    /\ pc' = [pc EXCEPT ![r] = "idle"]
    /\ req' = [req EXCEPT ![r] = NoReq]
    /\ UNCHANGED <<users, lastResp, evaluated, now, clockSteps, tokVars, dbVars>>

\* a handler that runs alone waits for the write lock before its DELETE or UPDATE
NoWriter == ~USE_POSTGRES => \A r \in Reqs : pc[r] # "send_deleted"

\* DELETE FROM verification_codes WHERE email = ? AND code_type = ?
DeleteCodes(email, code_type) == verification_codes \ CodeRows(email, code_type)

\* POST /auth/verify-code
M_VerifyCode_BurnsOnMismatch(email, code) ==
    /\ IF CodeRows(email, "registration") = {}
       THEN /\ lastCode' = CodeReply("verify", email, "registration", code,
                                     400, "No verification code found for this email")
            /\ UNCHANGED verification_codes
       ELSE \E row \in LatestCodes(email, "registration") :
               IF CodeExpired(row, now)
               THEN /\ NoWriter
                    /\ verification_codes' = DeleteCodes(email, "registration")
                    /\ lastCode' = CodeReply("verify", email, "registration", code,
                                             400, "Verification code has expired")
               ELSE IF row.code # code
               THEN /\ lastCode' = CodeReply("verify", email, "registration", code,
                                             400, "Invalid verification code")
                    /\ verification_codes' = DeleteCodes(email, "registration")
               ELSE /\ NoWriter
                    /\ verification_codes' = DeleteCodes(email, "registration")
                    /\ lastCode' = CodeReply("verify", email, "registration", code,
                                             200, "Email verified successfully")
    /\ UNCHANGED <<lockVars, tokVars, dbVars, now, clockSteps>>
VerifyCode(email, code) ==
    /\ IF CodeRows(email, "registration") = {}
       THEN /\ lastCode' = CodeReply("verify", email, "registration", code,
                                     400, "No verification code found for this email")
            /\ UNCHANGED verification_codes
       ELSE \E row \in LatestCodes(email, "registration") :
               IF CodeExpired(row, now)
               THEN /\ NoWriter
                    /\ verification_codes' = DeleteCodes(email, "registration")
                    /\ lastCode' = CodeReply("verify", email, "registration", code,
                                             400, "Verification code has expired")
               ELSE IF row.code # code
               THEN /\ lastCode' = CodeReply("verify", email, "registration", code,
                                             400, "Invalid verification code")
                    /\ UNCHANGED verification_codes
               ELSE /\ NoWriter
                    /\ verification_codes' = DeleteCodes(email, "registration")
                    /\ lastCode' = CodeReply("verify", email, "registration", code,
                                             200, "Email verified successfully")
    /\ UNCHANGED <<lockVars, tokVars, dbVars, now, clockSteps>>

\* POST /auth/verify-recovery-code
VerifyRecoveryCode(email, code, type) ==
    /\ LET code_type == RecoveryCodeType(type)
       IN IF CodeRows(email, code_type) = {}
          THEN /\ lastCode' = CodeReply("verify_recovery", email, code_type, code,
                                        400, "No recovery code found for this email")
               /\ UNCHANGED verification_codes
          ELSE \E row \in LatestCodes(email, code_type) :
                  IF CodeExpired(row, now)
                  THEN /\ NoWriter
                       /\ verification_codes' = DeleteCodes(email, code_type)
                       /\ lastCode' = CodeReply("verify_recovery", email, code_type, code,
                                                400, "Recovery code has expired")
                  ELSE IF row.code # code
                  THEN /\ lastCode' = CodeReply("verify_recovery", email, code_type, code,
                                                400, "Invalid recovery code")
                       /\ UNCHANGED verification_codes
                  ELSE IF DeletesOnSuccess(type)
                  THEN IF UsersWithEmail(email) = {}
                       THEN /\ lastCode' = CodeReply("verify_recovery", email, code_type,
                                                     code, 404, "User not found")
                            /\ UNCHANGED verification_codes
                       ELSE /\ NoWriter
                            /\ verification_codes' = DeleteCodes(email, code_type)
                            /\ lastCode' = CodeReply("verify_recovery", email, code_type,
                                                     code, 200,
                                                     "Username recovered successfully")
                  ELSE /\ lastCode' = CodeReply("verify_recovery", email, code_type, code,
                                                200, "Code verified successfully")
                       /\ UNCHANGED verification_codes
    /\ UNCHANGED <<lockVars, tokVars, dbVars, now, clockSteps>>

\* POST /auth/reset-password
M_ResetPassword_Unlocks(email, code, new_password) ==
    /\ IF CodeRows(email, "recovery_password") = {}
       THEN /\ lastCode' = CodeReply("reset_password", email, "recovery_password", code,
                                     400, "No recovery code found")
            /\ UNCHANGED <<verification_codes, users>>
       ELSE \E row \in LatestCodes(email, "recovery_password") :
               IF CodeExpired(row, now)
               THEN /\ NoWriter
                    /\ verification_codes' = DeleteCodes(email, "recovery_password")
                    /\ lastCode' = CodeReply("reset_password", email, "recovery_password",
                                             code, 400, "Recovery code has expired")
                    /\ UNCHANGED users
               ELSE IF row.code # code
               THEN /\ lastCode' = CodeReply("reset_password", email, "recovery_password",
                                             code, 400, "Invalid recovery code")
                    /\ UNCHANGED <<verification_codes, users>>
               ELSE IF ~MeetsResetPolicy(new_password)
               THEN /\ lastCode' = CodeReply("reset_password", email, "recovery_password",
                                             code, 400, "Password does not meet the rules")
                    /\ UNCHANGED <<verification_codes, users>>
               ELSE /\ NoWriter
                    /\ users' = [i \in DOMAIN users |->
                                   IF users[i].email = email
                                   THEN [users[i] EXCEPT !.password_hash =
                                                          hash_password(new_password, "salt"),
                                                         !.failed_login_attempts = 0,
                                                         !.locked_until = NULL]
                                   ELSE users[i]]
                    /\ verification_codes' = DeleteCodes(email, "recovery_password")
                    /\ lastCode' = CodeReply("reset_password", email, "recovery_password",
                                             code, 200, "Password reset successfully")
    /\ UNCHANGED <<pc, req, lastResp, evaluated, tokVars, dbVars, now, clockSteps>>
ResetPassword(email, code, new_password) ==
    /\ IF CodeRows(email, "recovery_password") = {}
       THEN /\ lastCode' = CodeReply("reset_password", email, "recovery_password", code,
                                     400, "No recovery code found")
            /\ UNCHANGED <<verification_codes, users>>
       ELSE \E row \in LatestCodes(email, "recovery_password") :
               IF CodeExpired(row, now)
               THEN /\ NoWriter
                    /\ verification_codes' = DeleteCodes(email, "recovery_password")
                    /\ lastCode' = CodeReply("reset_password", email, "recovery_password",
                                             code, 400, "Recovery code has expired")
                    /\ UNCHANGED users
               ELSE IF row.code # code
               THEN /\ lastCode' = CodeReply("reset_password", email, "recovery_password",
                                             code, 400, "Invalid recovery code")
                    /\ UNCHANGED <<verification_codes, users>>
               ELSE IF ~MeetsResetPolicy(new_password)
               THEN /\ lastCode' = CodeReply("reset_password", email, "recovery_password",
                                             code, 400, "Password does not meet the rules")
                    /\ UNCHANGED <<verification_codes, users>>
               ELSE /\ NoWriter
                    /\ users' = [i \in DOMAIN users |->
                                   IF users[i].email = email
                                   THEN [users[i] EXCEPT !.password_hash =
                                                          hash_password(new_password, "salt")]
                                   ELSE users[i]]
                    /\ verification_codes' = DeleteCodes(email, "recovery_password")
                    /\ lastCode' = CodeReply("reset_password", email, "recovery_password",
                                             code, 200, "Password reset successfully")
    /\ UNCHANGED <<pc, req, lastResp, evaluated, tokVars, dbVars, now, clockSteps>>

CodeDurations == {1, CodeTicks}

\* the handlers read the clock once: time passes between requests
TickCodes(d) ==
    /\ clockSteps < MaxClockSteps
    /\ \A r \in Reqs : pc[r] = "idle"
    /\ now' = now + d
    /\ clockSteps' = clockSteps + 1
    /\ lastCode' = NoCode
    /\ UNCHANGED <<lockVars, tokVars, verification_codes, dbVars>>

\* one account, with or without the email address the codes are asked for
CodeAccounts ==
    /\ \E e \in Emails :
         users = [i \in UserIds |->
                    [username |-> "alice",
                     password_hash |-> hash_password("Str0ng!Pass", "salt"),
                     email |-> e,
                     failed_login_attempts |-> 0,
                     locked_until |-> NULL]]
    /\ pc = [r \in Reqs |-> "idle"]
    /\ req = [r \in Reqs |-> NoReq]
    /\ lastResp = NoResp
    /\ evaluated = [i \in UserIds |-> 0]

InitCodes ==
    /\ CodeAccounts
    /\ TokInit
    /\ CodesInit
    /\ now = 0
    /\ clockSteps = 0

\* the code endpoints called one after the other
NextCodes ==
    \/ \E email \in CodeEmails, code \in Codes :
         SendVerificationDelete("r1", email, code)
    \/ \E email \in CodeEmails, type \in RecoveryTypes, code \in Codes :
         SendRecoveryDelete("r1", email, type, code)
    \/ SendInsert("r1")
    \/ \E email \in CodeEmails, code \in Codes : VerifyCode(email, code)
    \/ \E email \in CodeEmails, code \in Codes, type \in RecoveryTypes :
         VerifyRecoveryCode(email, code, type)
    \/ \E email \in CodeEmails, code \in Codes, new_password \in NewPasswords :
         ResetPassword(email, code, new_password)
    \/ \E d \in CodeDurations : TickCodes(d)

SpecCodes == InitCodes /\ [][NextCodes]_vars

\* two send requests in flight at once
NextSend ==
    \/ \E r \in Reqs, email \in CodeEmails, code \in Codes :
         SendVerificationDelete(r, email, code)
    \/ \E r \in Reqs, email \in CodeEmails, type \in RecoveryTypes, code \in Codes :
         SendRecoveryDelete(r, email, type, code)
    \/ \E r \in Reqs : SendInsert(r)

\* on either database
InitSend ==
    /\ CodeAccounts
    /\ TokInit
    /\ verification_codes = {}
    /\ USE_POSTGRES \in BOOLEAN
    /\ user_profiles = <<>>
    /\ lastCode = NoCode
    /\ now = 0
    /\ clockSteps = 0

SpecSend == InitSend /\ [][NextSend]_vars

\* ------------------------------------------------- accounts and their names
\* register and change_username requests in flight at once; a token is got by
\* logging in or registering
InitAccounts ==
    /\ LockIdle
    /\ TokInit
    /\ CodesInit
    /\ now \in StartTimes
    /\ clockSteps = 0

NextAccounts ==
    \/ \E i \in DOMAIN users : IssueToken(i, FALSE)
    \/ \E r \in Reqs, username \in NewNames :
         RegisterSelect(r, username, "Str0ng!Pass", "")
    \/ \E r \in Reqs : RegisterInsert(r)
    \/ \E r \in Reqs, tok \in tokens, new_username \in NewNames :
         ChangeUsernameSelect(r, tok, new_username)
    \/ \E r \in Reqs : ChangeUsernameUpdate(r)

SpecAccounts == InitAccounts /\ [][NextAccounts]_vars

\* ------------------------------------------------- sessions over time
\* tokens in use on a server in any time zone, while the account is renamed
SessionStartTimes == {2 * HourTicks, 2 * HourTicks + 1}

InitSession ==
    /\ LockIdle
    /\ CodesInit
    /\ SECRET_KEY = 1
    /\ PREVIOUS_SECRET_KEY = NULL
    /\ CURRENT_KEY_VERSION = 1
    /\ tz_offset \in UtcOffsets
    /\ tokens = {}
    /\ lastVerify = NoVerify
    /\ lastReply = NoReply
    /\ now \in SessionStartTimes
    /\ clockSteps = 0

NextSession ==
    \/ \E i \in UserIds, remember_me \in BOOLEAN : IssueToken(i, remember_me)
    \/ \E tok \in tokens : VerifyToken(tok)
    \/ \E tok \in tokens : RefreshToken(tok)
    \/ \E tok \in tokens : ChangeUsernameSelect("r1", tok, "mallory")
    \/ ChangeUsernameUpdate("r1")
    \/ \E d \in TokenDurations : TickToken(d)

SpecSession == InitSession /\ [][NextSession]_vars

\* ------------------------------------------------- accounts and their emails
\* a database in which nobody has registered yet
InitEmails ==
    /\ users = <<>>
    /\ pc = [r \in Reqs |-> "idle"]
    /\ req = [r \in Reqs |-> NoReq]
    /\ lastResp = NoResp
    /\ evaluated = [i \in UserIds |-> 0]
    /\ TokInit
    /\ CodesInit
    /\ now \in StartTimes
    /\ clockSteps = 0

\* register requests in flight at once, with an address in either case or
\* the exempt one
NextEmails ==
    \/ \E r \in Reqs, username \in NewNames,
          email \in {"Bob@x.com", "bob@x.com", EXEMPT_EMAIL} :
         RegisterSelect(r, username, "Str0ng!Pass", email)
    \/ \E r \in Reqs : RegisterInsert(r)

SpecEmails == InitEmails /\ [][NextEmails]_vars

\* ------------------------------------------------------- password policy
\* a password or a username is a sequence of characters
MaxChunks == 3

\* [a-z], [A-Z], \d and [!@#$%^&*(),.?":{}|<>]
LowerLetters ==
    <<"a", "b", "c", "d", "e", "f", "g", "h", "i", "j", "k", "l", "m",
      "n", "o", "p", "q", "r", "s", "t", "u", "v", "w", "x", "y", "z">>
UpperLetters ==
    <<"A", "B", "C", "D", "E", "F", "G", "H", "I", "J", "K", "L", "M",
      "N", "O", "P", "Q", "R", "S", "T", "U", "V", "W", "X", "Y", "Z">>
Digits == {"0", "1", "2", "3", "4", "5", "6", "7", "8", "9"}
SpecialChars ==
    {"!", "@", "#", "$", "%", "^", "&", "*", "(", ")", ",", ".", "?", "\"",
    ":", "{", "}", "|", "<", ">"}

Range(f) == {f[k] : k \in DOMAIN f}

\* re.search(class, password)
HasLower(password) == \E k \in DOMAIN password : password[k] \in Range(LowerLetters)
HasUpper(password) == \E k \in DOMAIN password : password[k] \in Range(UpperLetters)
HasDigit(password) == \E k \in DOMAIN password : password[k] \in Digits
HasSpecial(password) == \E k \in DOMAIN password : password[k] \in SpecialChars

\* str.lower()
lower(s) ==
    [k \in DOMAIN s |->
       IF s[k] \in Range(UpperLetters)
       THEN LowerLetters[CHOOSE j \in DOMAIN UpperLetters : UpperLetters[j] = s[k]]
       ELSE s[k]]

\* sub in s
Contains(s, sub) ==
    \E k \in 0..(Len(s) - Len(sub)) : SubSeq(s, k + 1, k + Len(sub)) = sub

\* re.search(r'(.)\1{2,}', password): a character three times in a row
HasRepeated(password) ==
    \E k \in 1..(Len(password) - 2) :
        password[k] = password[k + 1] /\ password[k + 1] = password[k + 2]

\* (012|123|234|345|456|567|678|789|890|abc|bcd|cde)
HasSequential(s) ==
    \E run \in
    {<<"0", "1", "2">>,
     <<"1", "2", "3">>,
     <<"2", "3", "4">>,
     <<"3", "4", "5">>,
     <<"4", "5", "6">>,
     <<"5", "6", "7">>,
     <<"6", "7", "8">>,
     <<"7", "8", "9">>,
     <<"8", "9", "0">>,
     <<"a", "b", "c">>,
     <<"b", "c", "d">>,
     <<"c", "d", "e">>} : Contains(s, run)

\* COMMON_PASSWORDS: the entries that the passwords of the model can spell
COMMON_PASSWORDS ==
    {<<"p", "a", "s", "s", "w", "o", "r", "d">>,
     <<"p", "a", "s", "s", "w", "o", "r", "d", "1">>,
     <<"p", "a", "s", "s", "w", "o", "r", "d", "1", "2", "3">>,
     <<"p", "a", "s", "s", "w", "o", "r", "d", "!">>,
     <<"a", "b", "c", "1", "2", "3">>,
     <<"1", "2", "3", "1", "2", "3">>,
     <<"1", "1", "1", "1", "1", "1">>,
     <<"p", "a", "s", "s", "w", "0", "r", "d">>}

StrengthLabel(score) ==
    IF score < 40 THEN "weak"
    ELSE IF score < 60 THEN "medium"
    ELSE IF score < 80 THEN "strong"
    ELSE "very strong"

\* the score before it is clamped
RawScore(password) ==
    LET length == (IF Len(password) >= 8 THEN 10 ELSE 0)
                  + (IF Len(password) >= 12 THEN 10 ELSE 0)
                  + (IF Len(password) >= 16 THEN 10 ELSE 0)
        diversity == (IF HasLower(password) THEN 10 ELSE 0)
                     + (IF HasUpper(password) THEN 10 ELSE 0)
                     + (IF HasDigit(password) THEN 10 ELSE 0)
                     + (IF HasSpecial(password) THEN 10 ELSE 0)
        char_types == (IF HasLower(password) THEN 1 ELSE 0)
                      + (IF HasUpper(password) THEN 1 ELSE 0)
                      + (IF HasDigit(password) THEN 1 ELSE 0)
                      + (IF HasSpecial(password) THEN 1 ELSE 0)
        mixing == IF char_types = 4 THEN 20 ELSE IF char_types = 3 THEN 10 ELSE 0
        penalty == (IF HasRepeated(password) THEN 10 ELSE 0)
                   + (IF HasSequential(lower(password)) THEN 10 ELSE 0)
        beyond == IF Len(password) > 16
                  THEN (IF (Len(password) - 16) * 2 < 10
                        THEN (Len(password) - 16) * 2 ELSE 10)
                  ELSE 0
    IN length + diversity + mixing - penalty + beyond

\* calculate_password_strength(password): (strength, score)
M_calculate_password_strength_NoClamp(password) ==
    [strength |-> StrengthLabel(RawScore(password)), score |-> RawScore(password)]
calculate_password_strength(password) ==
    LET raw == RawScore(password)
        score == IF raw > 100 THEN 100 ELSE IF raw < 0 THEN 0 ELSE raw
    IN [strength |-> StrengthLabel(score), score |-> score]

\* the errors of the hard rules, in the order validate_password appends them;
\* username is <<>> when the caller gives none
M_RuleErrors_FirstOnly(password, username) ==
    IF Len(password) < 8 THEN <<"min_length">>
    ELSE IF ~HasUpper(password) THEN <<"uppercase">>
    ELSE IF ~HasLower(password) THEN <<"lowercase">>
    ELSE IF ~HasDigit(password) THEN <<"number">>
    ELSE IF ~HasSpecial(password) THEN <<"special_char">>
    ELSE IF lower(password) \in COMMON_PASSWORDS THEN <<"common">>
    ELSE IF username # <<>> /\ lower(password) = lower(username) THEN <<"same_as_username">>
    ELSE IF username # <<>> /\ Len(username) >= 3
            /\ Contains(lower(password), lower(username)) THEN <<"contains_username">>
    ELSE <<>>
RuleErrors(password, username) ==
    LET If(cond, message) == IF cond THEN <<message>> ELSE <<>>
    IN
    If(Len(password) < 8, "min_length")
    \o If(~HasUpper(password), "uppercase")
    \o If(~HasLower(password), "lowercase")
    \o If(~HasDigit(password), "number")
    \o If(~HasSpecial(password), "special_char")
    \o If(lower(password) \in COMMON_PASSWORDS, "common")
    \o If(username # <<>> /\ lower(password) = lower(username), "same_as_username")
    \o If(username # <<>> /\ Len(username) >= 3
          /\ Contains(lower(password), lower(username)), "contains_username")

\* validate_password(password, username)
validate_password(password, username) ==
    LET s == calculate_password_strength(password)
        errors == RuleErrors(password, username)
                  \o (IF RuleErrors(password, username) = <<>> /\ s.strength = "weak"
                      THEN <<"weak">> ELSE <<>>)
    IN [valid |-> Len(errors) = 0, errors |-> errors,
        strength |-> s.strength, score |-> s.score]

RECURSIVE Cat(_)
Cat(cs) == IF cs = <<>> THEN <<>> ELSE Head(cs) \o Cat(Tail(cs))

\* the passwords of the model: up to MaxChunks of these pieces
PasswordInputs ==
    LET Chunks ==
    {<<"Q", "w", "7", "?", "k", "Z", "p", "4">>,
     <<"A", "b", "1", "!">>,
     <<"Z", "x", "9", "_">>,
     <<"a", "b", "c">>,
     <<"1", "2", "3">>,
     <<"1", "1", "1">>,
     <<"A">>,
     <<"!">>,
     <<"a", "l", "i", "c", "e">>,
     <<"p", "a", "s", "s", "w", "o", "r", "d">>,
     <<"p", "a", "s", "s">>}
    IN {Cat(cs) : cs \in UNION {[1..k -> Chunks] : k \in 0..MaxChunks}}

NoCheck == [op |-> "none", password |-> <<>>, username |-> <<>>, status |-> 0,
            valid |-> FALSE, errors |-> <<>>, strength |-> "", score |-> 0]

\* POST /auth/check-password-strength with the body received by request r
CheckPasswordStrength(r) ==
    /\ pc[r] = "check_received"
    /\ LET password == req[r].password
           username == req[r].username
       IN IF password = <<>>
          THEN lastResp' = [NoCheck EXCEPT !.op = "check", !.username = username,
                                           !.status = 400]
          ELSE LET result == validate_password(password, username)
               IN lastResp' = [op |-> "check", password |-> password,
                               username |-> username, status |-> 200,
                               valid |-> result.valid, errors |-> result.errors,
                               strength |-> result.strength, score |-> result.score]
    /\ pc' = [pc EXCEPT ![r] = "idle"]
    /\ UNCHANGED <<users, req, evaluated, now, clockSteps, tokVars, codeVars>>

\* validate_password as a function of its inputs: a request with any password
\* and username of the model has been received
InitPolicy ==
    /\ users = [i \in UserIds |->
                  [username |-> "alice",
                   password_hash |-> hash_password("Str0ng!Pass", "salt"),
                   email |-> "alice@x.com",
                   failed_login_attempts |-> 0,
                   locked_until |-> NULL]]
    /\ \E password \in PasswordInputs,
          username \in {<<>>, <<"a", "l">>, <<"a", "l", "i", "c", "e">>} :
         req = [r \in Reqs |-> [password |-> password, username |-> username]]
    /\ pc = [r \in Reqs |-> IF r = "r1" THEN "check_received" ELSE "idle"]
    /\ lastResp = NoCheck
    /\ evaluated = [i \in UserIds |-> 0]
    /\ TokInit
    /\ CodesInit
    /\ now = 0
    /\ clockSteps = 0

NextPolicy == CheckPasswordStrength("r1")

SpecPolicy == InitPolicy /\ [][NextPolicy]_vars

\* --------------------------------------------------------- change_password
\* the characters change_password takes for special:
\* "!@#$%^&*()_+-=[]{}; ':\"\\|,.<>/?"
ChangeSpecialChars ==
    {"!", "@", "#", "$", "%", "^", "&", "*", "(", ")", "_", "+", "-", "=",
     "[", "]", "{", "}", ";", " ", "'", ":", "\"", "\\", "|", ",", ".",
     "<", ">", "/", "?"}

\* the five checks change_password makes on new_password, in its order;
\* isupper, islower and isdigit on the characters of the model
ChangeRuleError(new_password) ==
    IF Len(new_password) < 8 THEN "Password must be at least 8 characters"
    ELSE IF ~HasUpper(new_password)
    THEN "Password must contain at least one uppercase letter"
    ELSE IF ~HasLower(new_password)
    THEN "Password must contain at least one lowercase letter"
    ELSE IF ~HasDigit(new_password)
    THEN "Password must contain at least one number"
    ELSE IF ~\E k \in DOMAIN new_password : new_password[k] \in ChangeSpecialChars
    THEN "Password must contain at least one special character"
    ELSE ""

\* the passwords given to change_password: two of these pieces
ChangePasswords ==
    {Cat(cs) : cs \in [1..2 -> {<<"A", "b", "1", "!">>,
                                <<"Z", "x", "9", "_">>,
                                <<"p", "a", "s", "s">>}]}

ChangeReply(status, detail, current_password) ==
    [op |-> "change_password", status |-> status, detail |-> detail,
     current_password |-> current_password]

NoChange == [op |-> "none", status |-> 0, detail |-> "", current_password |-> <<>>]

\* POST /auth/change-password with "Bearer tok"
ChangePassword(tok, current_password, new_password) ==
    /\ \E expired \in ExpiredChoices(tok, now), immature \in ImmatureChoices(tok, now) :
         LET v == verify_token(tok, SECRET_KEY, PREVIOUS_SECRET_KEY,
                               CURRENT_KEY_VERSION, now, expired, immature)
             user_id == tok.user_id
         IN IF v.result # "payload"
            THEN /\ lastResp' = ChangeReply(401, v.result, current_password)
                 /\ UNCHANGED users
            ELSE IF ChangeRuleError(new_password) # ""
            THEN /\ lastResp' = ChangeReply(400, ChangeRuleError(new_password),
                                            current_password)
                 /\ UNCHANGED users
            ELSE IF user_id \notin DOMAIN users
            THEN /\ lastResp' = ChangeReply(404, "User not found", current_password)
                 /\ UNCHANGED users
            ELSE IF ~verify_password(current_password, users[user_id].password_hash)
            THEN /\ lastResp' = ChangeReply(401, "Current password is incorrect",
                                            current_password)
                 /\ UNCHANGED users
            ELSE /\ users' = [users EXCEPT ![user_id].password_hash =
                                             hash_password(new_password, "salt")]
                 /\ lastResp' = ChangeReply(200, "Password changed successfully",
                                            current_password)
    /\ lastVerify' = NoVerify
    /\ lastReply' = NoReply
    /\ UNCHANGED <<pc, req, evaluated, keyVars, tokens, codeVars, now, clockSteps>>

\* DELETE /admin/clear-all-data with the right secret header
ClearAllData ==
    /\ users # <<>>
    /\ users' = <<>>
    /\ lastResp' = NoChange
    /\ lastVerify' = NoVerify
    /\ lastReply' = NoReply
    /\ UNCHANGED <<pc, req, evaluated, keyVars, tokens, codeVars, now, clockSteps>>

\* one account, whose password is a sequence of characters
InitChange ==
    /\ users = [i \in UserIds |->
                  [username |-> "alice",
                   password_hash |-> hash_password(<<"A", "b", "1", "!", "A", "b", "1", "!">>,
                                                  "salt"),
                   email |-> "alice@x.com",
                   failed_login_attempts |-> 0,
                   locked_until |-> NULL]]
    /\ pc = [r \in Reqs |-> "idle"]
    /\ req = [r \in Reqs |-> NoReq]
    /\ lastResp = NoChange
    /\ evaluated = [i \in UserIds |-> 0]
    /\ TokInit
    /\ CodesInit
    /\ now \in StartTimes
    /\ clockSteps = 0

NextChange ==
    \/ \E i \in DOMAIN users : IssueToken(i, FALSE)
    \/ \E tok \in tokens, current_password \in ChangePasswords,
          new_password \in ChangePasswords :
         ChangePassword(tok, current_password, new_password)
    \/ ClearAllData
    \/ ApplyRotation

SpecChange == InitChange /\ [][NextChange]_vars

\* ------------------------------------------------ authorization entry points
\* get_current_user(authorization) of main.py: the user id, or the detail of the 401
get_current_user(place, tok, secret, previous, version, t, expired, immature) ==
    IF place # "bearer" THEN "Not authenticated"
    ELSE verify_token(tok, secret, previous, version, t, expired, immature).result

\* JWTBearer.__call__(request) of middleware/auth.py: the payload, or the detail
\* of the 401; its SECRET_KEY is read from the same JWT_SECRET_KEY
JWTBearer(place, tok, secret, expired, immature) ==
    IF place \notin {"bearer", "bare", "cookie"} THEN "No authentication token"
    ELSE LET d == jwt_decode(tok, secret, expired, immature)
         IN IF d = "ExpiredSignatureError" THEN "Token expired"
            ELSE IF d = "InvalidTokenError" THEN "Invalid token"
            ELSE "payload"

Admission(op, place, tok, result) ==
    [NoReply EXCEPT !.op = op, !.presented = <<place, tok>>,
                    !.status = IF result = "payload" THEN 200 ELSE 401,
                    !.detail = IF result = "payload" THEN "" ELSE result]

\* a protected endpoint that depends on get_current_user is called
GetCurrentUser(place, tok) ==
    /\ \E expired \in ExpiredChoices(tok, now), immature \in ImmatureChoices(tok, now) :
         lastReply' = Admission("get_current_user", place, tok,
                          get_current_user(place, tok, SECRET_KEY, PREVIOUS_SECRET_KEY,
                                           CURRENT_KEY_VERSION, now, expired, immature))
    /\ lastVerify' = NoVerify
    /\ UNCHANGED <<lockVars, keyVars, codeVars, tokens, now, clockSteps>>

\* a protected endpoint that depends on JWTBearer() is called
JWTBearerCall(place, tok) ==
    /\ \E expired \in ExpiredChoices(tok, now), immature \in ImmatureChoices(tok, now) :
         lastReply' = Admission("JWTBearer", place, tok,
                          JWTBearer(place, tok, SECRET_KEY, expired, immature))
    /\ lastVerify' = NoVerify
    /\ UNCHANGED <<lockVars, keyVars, codeVars, tokens, now, clockSteps>>

\* where a request carries its token: "Bearer <token>", the token alone or
\* "Basic <token>" in the Authorization header, a cookie, or nowhere
NextGateway ==
    \/ \E place \in {"bearer", "bare", "basic", "cookie", "absent"}, tok \in tokens :
         GetCurrentUser(place, tok)
    \/ \E place \in {"bearer", "bare", "basic", "cookie", "absent"}, tok \in tokens :
         JWTBearerCall(place, tok)

\* any environment and any token, as for verify_token
SpecGateway == InitVerify /\ [][NextGateway]_vars

\* ------------------------------------------------------------ user profiles
\* the columns name, email and phone of user_profiles; a column without a
\* value, and a key that a request body does not have, is None
None == "<None>"

\* profile.get(key)
Get(profile, key) == IF key \in DOMAIN profile THEN profile[key] ELSE None

\* Python truth of a value of the model
Truthy(v) == v # None /\ v # ""

\* re.sub(r'\D', '', phone) on the phone numbers of the model
DigitsOnly(phone) ==
    IF phone = "(555) 123-4567" THEN "5551234567"
    ELSE IF phone = "n/a" THEN ""
    ELSE phone

\* the bodies posted to /user/profile
ProfileBodies ==
    {[hasCompletedOnboarding |-> TRUE]}
    \cup {[name |-> name, email |-> email, phone |-> phone] :
            name \in {"Alice"},
            email \in {"alice@x.com", "bob@x.com", ""},
            phone \in {"(555) 123-4567", "5551234567", "n/a", ""}}

NoProfile == [op |-> "none", user_id |-> NoRow, body |-> <<>>, status |-> 0,
              detail |-> "", name |-> "", email |-> "", phone |-> ""]

\* the body of GET /user/profile for user_id, given the table
get_user_profile(profiles, user_id) ==
    IF user_id \notin DOMAIN profiles
    THEN [name |-> "", email |-> "", phone |-> ""]
    ELSE [name |-> profiles[user_id].name, email |-> profiles[user_id].email,
          phone |-> profiles[user_id].phone]

\* GET /user/profile with "Bearer tok"
GetUserProfile(tok) ==
    /\ \E expired \in ExpiredChoices(tok, now), immature \in ImmatureChoices(tok, now) :
         LET v == verify_token(tok, SECRET_KEY, PREVIOUS_SECRET_KEY,
                               CURRENT_KEY_VERSION, now, expired, immature)
             row == get_user_profile(user_profiles, tok.user_id)
         IN IF v.result # "payload"
            THEN lastResp' = [NoProfile EXCEPT !.op = "get_profile", !.status = 401,
                                               !.detail = v.result]
            ELSE lastResp' = [NoProfile EXCEPT !.op = "get_profile", !.status = 200,
                                               !.user_id = tok.user_id,
                                               !.name = row.name, !.email = row.email,
                                               !.phone = row.phone]
    /\ lastVerify' = NoVerify
    /\ lastReply' = NoReply
    /\ UNCHANGED <<users, pc, req, evaluated, keyVars, tokens, codeVars, now, clockSteps>>

\* POST /user/profile with "Bearer tok" and the JSON body profile
SaveUserProfile(tok, profile) ==
    /\ \E expired \in ExpiredChoices(tok, now), immature \in ImmatureChoices(tok, now) :
         LET v == verify_token(tok, SECRET_KEY, PREVIOUS_SECRET_KEY,
                               CURRENT_KEY_VERSION, now, expired, immature)
             user_id == tok.user_id
             phone_cleaned == DigitsOnly(Get(profile, "phone"))
             phone == IF Truthy(Get(profile, "phone"))
                      THEN (IF phone_cleaned # "" THEN phone_cleaned ELSE None)
                      ELSE Get(profile, "phone")
             email == Get(profile, "email")
             reply == [NoProfile EXCEPT !.op = "save_profile", !.user_id = user_id,
                                        !.body = profile]
         IN IF v.result # "payload"
            THEN /\ lastResp' = [reply EXCEPT !.status = 401, !.detail = v.result]
                 /\ UNCHANGED user_profiles
            ELSE IF /\ Truthy(phone)
                    /\ \E other \in DOMAIN user_profiles :
                         other # user_id /\ user_profiles[other].phone = phone
            THEN /\ lastResp' = [reply EXCEPT !.status = 400, !.detail =
                       "This phone number is already associated with another account"]
                 /\ UNCHANGED user_profiles
            ELSE IF /\ Truthy(email)
                    /\ LowerEmail(email) # EXEMPT_EMAIL
                    /\ \E i \in DOMAIN users :
                         i # user_id /\ LowerEmail(users[i].email) = LowerEmail(email)
            THEN /\ lastResp' = [reply EXCEPT !.status = 400, !.detail =
                       "This email is already associated with another account"]
                 /\ UNCHANGED user_profiles
            ELSE /\ user_profiles' =
                      [i \in DOMAIN user_profiles \cup {user_id} |->
                         IF i = user_id
                         THEN [name |-> Get(profile, "name"), email |-> email,
                               phone |-> phone]
                         ELSE user_profiles[i]]
                 /\ lastResp' = [reply EXCEPT !.status = 200]
    /\ lastVerify' = NoVerify
    /\ lastReply' = NoReply
    /\ UNCHANGED <<users, pc, req, evaluated, keyVars, tokens, verification_codes,
                   USE_POSTGRES, lastCode, now, clockSteps>>

\* two registered accounts, on either database
InitProfiles ==
    /\ users = [i \in 1..2 |->
                  [username |-> IF i = 1 THEN "alice" ELSE "bob",
                   password_hash |-> hash_password("Str0ng!Pass", "salt"),
                   email |-> IF i = 1 THEN "alice@x.com" ELSE "bob@x.com",
                   failed_login_attempts |-> 0,
                   locked_until |-> NULL]]
    /\ pc = [r \in Reqs |-> "idle"]
    /\ req = [r \in Reqs |-> NoReq]
    /\ lastResp = NoProfile
    /\ evaluated = [i \in UserIds |-> 0]
    /\ TokInit
    /\ verification_codes = {}
    /\ USE_POSTGRES \in BOOLEAN
    /\ user_profiles = <<>>
    /\ lastCode = NoCode
    /\ now \in StartTimes
    /\ clockSteps = 0

NextProfiles ==
    \/ \E i \in DOMAIN users : IssueToken(i, FALSE)
    \/ \E tok \in tokens : GetUserProfile(tok)
    \/ \E tok \in tokens, profile \in ProfileBodies : SaveUserProfile(tok, profile)

SpecProfiles == InitProfiles /\ [][NextProfiles]_vars

\* ------------------------------------------ password recovery and lockout
\* two accounts registered with the exempt email address; logins to the first
\* one, recovery of the password by email, and the clock
InitRecovery ==
    /\ users = [i \in 1..2 |->
                  [username |-> IF i = 1 THEN "alice" ELSE "mallory",
                   password_hash |-> hash_password("Str0ng!Pass", "salt"),
                   email |-> EXEMPT_EMAIL,
                   failed_login_attempts |-> 0,
                   locked_until |-> NULL]]
    /\ pc = [r \in Reqs |-> "idle"]
    /\ req = [r \in Reqs |-> NoReq]
    /\ lastResp = NoResp
    /\ evaluated = [i \in UserIds |-> 0]
    /\ TokInit
    /\ CodesInit
    /\ now = 0
    /\ clockSteps = 0

\* login changes no verification code: the response of the code endpoints is
\* the one of the last call
NextRecovery ==
    \/ \E p \in Passwords : LoginSelect("r1", "alice", p)
    \/ LoginCheckLock("r1")
    \/ LoginVerifyPassword("r1")
    \/ \E code \in Codes : SendRecoveryDelete("r1", EXEMPT_EMAIL, "password", code)
    \/ SendInsert("r1")
    \/ \E code \in Codes, new_password \in NewPasswords :
         ResetPassword(EXEMPT_EMAIL, code, new_password)
    \/ \E d \in Durations : Tick(d)

SpecRecovery == InitRecovery /\ [][NextRecovery]_vars

\* ------------------------------------------- sessions across key rotations
\* tokens are issued, verified and refreshed on a server in any time zone
\* while the operator rotates the signing key
NextRefresh ==
    \/ \E i \in UserIds, remember_me \in BOOLEAN : IssueToken(i, remember_me)
    \/ \E tok \in tokens : VerifyToken(tok)
    \/ \E tok \in tokens : RefreshToken(tok)
    \/ ApplyRotation
    \/ \E d \in TokenDurations : TickToken(d)

SpecRefresh == InitSession /\ [][NextRefresh]_vars

\* ---------------------------------------------------------------- claims
\* request r takes a step of its login
Steps(r) == pc'[r] # pc[r]

\* request r sends its response in this step
Responds(r) == pc[r] # "idle" /\ pc'[r] = "idle"

\* C1: a login that read the account locked and checks the lock at a time
\* strictly before locked_until is answered 423 and gets no token, whether its
\* password is right or wrong.
C1_LockedLoginRejected ==
    [][\A r \in Reqs :
         (/\ pc[r] = "selected"
          /\ req[r].locked_until # NULL
          /\ now < req[r].locked_until
          /\ Steps(r))
         => (/\ pc'[r] = "idle"
             /\ lastResp'.status = 423
             /\ lastResp'.outcome = "account_locked"
             /\ ~lastResp'.token)]_vars

C1_Witness ==
    /\ lastResp.outcome = "account_locked"
    /\ lastResp.password = "Str0ng!Pass"
    /\ \E i \in UserIds : /\ users[i].failed_login_attempts = LOCKOUT_THRESHOLD
                          /\ users[i].locked_until # NULL
                          /\ now < users[i].locked_until

\* C2: no evaluated failure is lost: when no login is in flight, the persisted
\* failed_login_attempts equals the number of failed password checks since the
\* last reset, and LOCKOUT_THRESHOLD of them leave the account locked.
C2_NoFailureLost ==
    \A i \in UserIds :
        (\A r \in Reqs : pc[r] = "idle")
        => IF evaluated[i] < LOCKOUT_THRESHOLD
           THEN users[i].failed_login_attempts = evaluated[i]
           ELSE users[i].locked_until # NULL

\* C3: a login rejected because the account is locked changes no user row and
\* sends no notification; its Retry-After is the whole number of seconds from
\* now to the locked_until it read.
C3_LockedRejectionFrame ==
    [][\A r \in Reqs :
         (Responds(r) /\ lastResp'.outcome = "account_locked")
         => (/\ users' = users
             /\ lastResp'.emails_sent = 0
             /\ lastResp'.status = 423
             /\ lastResp'.retry_after >= 0
             /\ lastResp'.retry_after * TicksPerSecond <= req[r].locked_until - now
             /\ req[r].locked_until - now < (lastResp'.retry_after + 1) * TicksPerSecond)]_vars

C3_Witness ==
    /\ lastResp.outcome = "account_locked"
    /\ lastResp.retry_after = LOCK_MINUTES * 60 - 1
    /\ \E i \in UserIds : users[i].locked_until = now + LockTicks - 1

\* C4: counted from a reset, the n-th failed password check persists n and
\* answers 401 with hint 5 - n for n = 1..4; the 5th persists 5 and
\* locked_until = now + 15 minutes, answers 423 with Retry-After 900 and sends
\* one notification exactly when the account has an email.
C4_NthFailure ==
    [][\A r \in Reqs :
         (/\ Responds(r)
          /\ lastResp'.outcome \in {"invalid_password", "locked_now"}
          /\ evaluated[req[r].user_id] < LOCKOUT_THRESHOLD)
         => LET i == req[r].user_id
                n == evaluated[i] + 1
            IN IF n < LOCKOUT_THRESHOLD
               THEN /\ users'[i].failed_login_attempts = n
                    /\ lastResp'.status = 401
                    /\ lastResp'.hint = LOCKOUT_THRESHOLD - n
               ELSE /\ users'[i].failed_login_attempts = LOCKOUT_THRESHOLD
                    /\ users'[i].locked_until = now + LockTicks
                    /\ lastResp'.status = 423
                    /\ lastResp'.retry_after = 900
                    /\ lastResp'.emails_sent = (IF users[i].email # "" THEN 1 ELSE 0)]_vars

\* C5: a login that finds the lock it read expired resets the row (attempts 0,
\* locked_until NULL) before the password check; after that a right password
\* succeeds and leaves attempts at 0, a wrong one leaves attempts = 1 and is
\* answered 401 with 4 attempts remaining, with no new lock.
C5_ExpiryEvaluatedFirst ==
    [][\A r \in Reqs :
         /\ (/\ pc[r] = "selected"
             /\ req[r].locked_until # NULL
             /\ now >= req[r].locked_until
             /\ Steps(r))
            => (/\ pc'[r] = "checked"
                /\ users'[req[r].user_id].failed_login_attempts = 0
                /\ users'[req[r].user_id].locked_until = NULL
                /\ lastResp' = lastResp)
         /\ (pc[r] = "checked" /\ Steps(r))
            => LET i == req[r].user_id
               IN /\ pc'[r] = "idle"
                  /\ IF req[r].password = users[i].password_hash[2]
                     THEN /\ lastResp'.status = 200
                          /\ lastResp'.token
                          /\ users'[i].failed_login_attempts = 0
                          /\ users'[i].locked_until = NULL
                     ELSE /\ lastResp'.status = 401
                          /\ lastResp'.hint = 4
                          /\ users'[i].failed_login_attempts = 1
                          /\ users'[i].locked_until = users[i].locked_until]_vars

C5_Witness ==
    \E r \in Reqs :
        /\ pc[r] = "checked"
        /\ req[r].locked_until # NULL
        /\ now >= req[r].locked_until
        /\ users[req[r].user_id].failed_login_attempts = 0
        /\ users[req[r].user_id].locked_until = NULL

\* C6: a successful login resets the row, and an account becomes locked only
\* by the 5th failed password check since the last successful login, unlock or
\* lock expiry.
C6_LockOnlyByFiveFailures ==
    [][\A r \in Reqs :
         /\ (Responds(r) /\ lastResp'.outcome = "login_success")
            => (/\ users'[req[r].user_id].failed_login_attempts = 0
                /\ users'[req[r].user_id].locked_until = NULL)
         /\ \A i \in UserIds :
              (users[i].locked_until = NULL /\ users'[i].locked_until # NULL)
              => evaluated'[i] >= LOCKOUT_THRESHOLD]_vars

\* what the client sees of a login response
Visible(response) ==
    [status |-> response.status, hint |-> response.hint,
     retry_after |-> response.retry_after, token |-> response.token]

\* C7: the response to a wrong password for an existing username is the
\* response to an unknown username.
C7_NoUserEnumeration ==
    lastResp.outcome \in {"invalid_password", "locked_now", "account_locked"}
    => Visible(lastResp) = Visible(RespUserNotFound)

\* the signature and exp checks of the last verify_token call passed
Decoded ==
    /\ lastVerify.result # "none"
    /\ lastVerify.result # "Invalid token"
    /\ lastVerify.result # "Token has expired"

UnderCurrent == lastVerify.token.sig = SECRET_KEY

UnderPrevious ==
    /\ lastVerify.token.sig # SECRET_KEY
    /\ lastVerify.token.sig = PREVIOUS_SECRET_KEY

C10_TwoRotationsInvalidated ==
    (/\ lastVerify.result # "none"
     /\ PREVIOUS_SECRET_KEY # NULL
     /\ lastVerify.token.key_version = CURRENT_KEY_VERSION - 2)
    => lastVerify.result = "Token has been invalidated"

\* the last verify_token call got past the signature, exp and key version checks
PassedKeyChecks ==
    /\ Decoded
    /\ lastVerify.result # "Token has been invalidated"

Idle == now - lastVerify.token.last_activity

\* C11: a token that passes the signature, key version and exp checks fails
\* with "Session expired due to inactivity" exactly when now - last_activity
\* exceeds 30 minutes (remember_me false) or 30 days (remember_me true); a
\* remember_me token idle for more than 30 minutes and less than 30 days is
\* accepted.
C11_InactivityTimeout ==
    PassedKeyChecks =>
        /\ lastVerify.result = "Session expired due to inactivity"
             <=> Idle > (IF lastVerify.token.remember_me
                         THEN REMEMBER_ME_TIMEOUT_DAYS * 86400 * TicksPerSecond
                         ELSE ACTIVITY_TIMEOUT_MINUTES * 60 * TicksPerSecond)
        /\ (/\ lastVerify.token.remember_me
            /\ Idle > 30 * 60 * TicksPerSecond
            /\ Idle < 30 * 86400 * TicksPerSecond)
           => lastVerify.result = "payload"

C11_Witness ==
    /\ PassedKeyChecks
    /\ lastVerify.token.remember_me
    /\ Idle > 30 * 60 * TicksPerSecond
    /\ Idle < 30 * 86400 * TicksPerSecond
    /\ lastVerify.result = "payload"

\* the UTC time at which tok was issued: iat is that time as timestamp() gave it
IssuedAt(tok) == tok.iat + tz_offset

\* C12: verify_token leaves every token as it is, and a token that is
\* verified before its exp and after its inactivity timeout has elapsed since
\* it was issued is rejected with "Session expired due to inactivity".
C12_VerifyNeverExtends ==
    [][lastVerify'.result # "none" =>
         /\ tokens' = tokens
         /\ (/\ lastVerify'.result # "Token has expired"
             /\ now' - IssuedAt(lastVerify'.token) >
                  (IF lastVerify'.token.remember_me THEN RememberTicks ELSE ActivityTicks))
            => lastVerify'.result = "Session expired due to inactivity"]_vars

\* C13: a refresh of a token that passes verify_token returns a new token
\* with the user_id, username and remember_me of the presented token,
\* last_activity = now and exp = now + 30 days (in whole seconds); a refresh
\* of a token that fails verify_token adds no token and returns that failure.
C13_RefreshPreserves ==
    [][lastReply'.op = "refresh" =>
         LET tok == lastReply'.presented
             new == lastReply'.token
         IN /\ lastReply'.status \in {200, 401}
            /\ lastReply'.status = 200 =>
                 /\ new \in tokens'
                 /\ new.user_id = tok.user_id
                 /\ new.username = tok.username
                 /\ new.remember_me = tok.remember_me
                 /\ new.last_activity = now'
                 /\ new.exp \div TicksPerSecond = (now' + ExpireTicks) \div TicksPerSecond
            /\ lastReply'.status = 401 =>
                 /\ tokens' = tokens
                 /\ \E expired \in ExpiredChoices(tok, now'),
                       immature \in ImmatureChoices(tok, now') :
                      lastReply'.detail =
                        verify_token(tok, SECRET_KEY', PREVIOUS_SECRET_KEY',
                                     CURRENT_KEY_VERSION', now', expired, immature).result]_vars

C15_OneCodePerPurpose ==
    \A email \in CodeEmails :
        \A code_type \in {"registration", "recovery_password", "recovery_username"} :
            Cardinality(CodeRows(email, code_type)) <= 1

\* the responses of the code endpoints
NotFoundDetails ==
    {"No verification code found for this email",
     "No recovery code found for this email",
     "No recovery code found"}

ExpiredDetails ==
    {"Verification code has expired", "Recovery code has expired"}

VerifyOps == {"verify", "verify_recovery"}

\* the rows stored for the email and code type of the call answered in this step
RowsBefore ==
    {row \in verification_codes :
        row.email = lastCode'.email /\ row.code_type = lastCode'.code_type}

RowsAfter ==
    {row \in verification_codes' :
        row.email = lastCode'.email /\ row.code_type = lastCode'.code_type}

\* C16: a successful verify_code or verify_recovery_code deletes the code for
\* registration and username recovery and leaves the table as it is for
\* password recovery; a verify that finds no code stored fails with
\* "No ... code found".
C16_VerifyDeletesUnlessPasswordRecovery ==
    [][lastCode'.op \in VerifyOps =>
         /\ (lastCode'.status = 200 /\ lastCode'.code_type # "recovery_password")
            => RowsAfter = {}
         /\ (lastCode'.status = 200 /\ lastCode'.code_type = "recovery_password")
            => /\ verification_codes' = verification_codes
               /\ \E row \in RowsAfter : row.code = lastCode'.code
         /\ RowsBefore = {} => lastCode'.detail \in NotFoundDetails]_vars

C16_Witness ==
    /\ lastCode.op = "verify_recovery"
    /\ lastCode.status = 200
    /\ lastCode.code_type = "recovery_password"
    /\ \E row \in CodeRows(lastCode.email, "recovery_password") : row.code = lastCode.code

\* C17: reset_password changes a password hash only when a recovery_password
\* code is stored for the email, is not expired and equals the code supplied;
\* a code that verify_recovery_code has just accepted is accepted by
\* reset_password; a successful reset_password deletes the code, and a
\* reset_password that finds no code stored fails with "No recovery code found".
C17_ResetPassword ==
    [][/\ users' # users =>
            /\ lastCode'.op = "reset_password"
            /\ \E row \in CodeRows(lastCode'.email, "recovery_password") :
                  /\ row.code = lastCode'.code
                  /\ now <= row.expires_at
       /\ (/\ lastCode.op = "verify_recovery"
           /\ lastCode.status = 200
           /\ lastCode.code_type = "recovery_password"
           /\ lastCode'.op = "reset_password"
           /\ lastCode'.email = lastCode.email
           /\ lastCode'.code = lastCode.code)
          => lastCode'.detail \in {"Password reset successfully",
                                   "Password does not meet the rules"}
       /\ lastCode'.op = "reset_password" =>
            /\ lastCode'.status = 200 => RowsAfter = {}
            /\ RowsBefore = {} => lastCode'.detail \in NotFoundDetails]_vars

C17_Witness ==
    /\ lastCode.op = "reset_password"
    /\ lastCode.status = 200
    /\ \E i \in DOMAIN users :
          /\ users[i].email = lastCode.email
          /\ users[i].password_hash = hash_password("N3w!Passw0rd", "salt")
    /\ CodeRows(lastCode.email, "recovery_password") = {}

\* C18: verify_code, verify_recovery_code and reset_password answer "... has
\* expired" exactly when the stored code's expires_at has passed, whether or
\* not the code supplied equals it; that call changes no user row and deletes
\* the code, so that a later call finds none.
C18_ExpiredCode ==
    [][lastCode'.op \in VerifyOps \cup {"reset_password"} =>
         /\ lastCode'.detail \in ExpiredDetails
              <=> \E row \in RowsBefore : now > row.expires_at
         /\ lastCode'.detail \in ExpiredDetails =>
              /\ users' = users
              /\ RowsAfter = {}
         /\ RowsBefore = {} => lastCode'.detail \in NotFoundDetails]_vars

C18_Witness ==
    /\ lastCode.op = "reset_password"
    /\ lastCode.detail \in ExpiredDetails
    /\ CodeRows(lastCode.email, lastCode.code_type) = {}

\* C19: a send leaves every code stored for the same email under another
\* code type as it is.
C19_SendKeepsOtherPurposes ==
    [][(lastCode'.op \in {"send_verification", "send_recovery"} /\ lastCode'.status = 200)
        => \A row \in verification_codes :
              (row.email = lastCode'.email /\ row.code_type # lastCode'.code_type)
              => row \in verification_codes']_vars

\* C20: no two users have names that are equal ignoring case, and a register
\* or change_username request whose name is, ignoring case, the name of another
\* user when it is answered fails with "Username already taken" and changes
\* no user row, also when such requests run at the same time.
C20_UniqueNames ==
    [][/\ \A i \in DOMAIN users' : \A j \in DOMAIN users' :
            i # j => Lower(users'[i].username) # Lower(users'[j].username)
       /\ \A r \in Reqs :
            (/\ pc[r] \in {"reg_selected", "cu_selected"}
             /\ pc'[r] = "idle"
             /\ NameTaken(req[r].username, req[r].user_id))
            => /\ lastResp'.outcome = "username_taken"
               /\ users' = users]_vars

\* C21: no two user records have emails equal ignoring case, unless the email
\* is the exempt address, also when register requests run at the same time;
\* a register request whose non-exempt email is held by a user is answered
\* "An account with this email already exists" and creates no user.
C21_UniqueEmails ==
    [][/\ \A i, j \in DOMAIN users' :
            (/\ i # j
             /\ users'[i].email # ""
             /\ LowerEmail(users'[i].email) = LowerEmail(users'[j].email))
            => LowerEmail(users'[i].email) = EXEMPT_EMAIL
       /\ \A r \in Reqs :
            (/\ pc[r] = "reg_selected"
             /\ pc'[r] = "idle"
             /\ ~UniqueViolation(req[r].username, NoRow)
             /\ req[r].email \notin {"", EXEMPT_EMAIL}
             /\ EmailTaken(req[r].email))
            => (lastResp'.outcome = "email_exists" /\ users' = users)]_vars

\* the hard rules of the password policy that password p breaks for username u
ViolatedRules(p, u) ==
    {rule \in {"min_length", "uppercase", "lowercase", "number", "special_char",
               "common", "same_as_username", "contains_username"} :
        \/ rule = "min_length" /\ Len(p) < 8
        \/ rule = "uppercase" /\ ~\E k \in DOMAIN p : p[k] \in Range(UpperLetters)
        \/ rule = "lowercase" /\ ~\E k \in DOMAIN p : p[k] \in Range(LowerLetters)
        \/ rule = "number" /\ ~\E k \in DOMAIN p : p[k] \in Digits
        \/ rule = "special_char" /\ ~\E k \in DOMAIN p : p[k] \in SpecialChars
        \/ rule = "common" /\ \E c \in COMMON_PASSWORDS : lower(c) = lower(p)
        \/ rule = "same_as_username" /\ u # <<>> /\ lower(p) = lower(u)
        \/ rule = "contains_username" /\ Len(u) >= 3 /\ Contains(lower(p), lower(u))}

\* the check-password-strength request has been answered with a validation
Validated == lastResp.op = "check" /\ lastResp.status = 200

\* C23: validate returns valid = true exactly when no hard rule is violated and
\* the strength label is not weak; errors holds one entry for every violated
\* hard rule, not only the first one.
C23_ValidateListsEveryRule ==
    Validated =>
        LET violated == ViolatedRules(lastResp.password, lastResp.username)
        IN /\ lastResp.valid <=> (violated = {} /\ lastResp.strength # "weak")
           /\ Range(lastResp.errors) \ {"weak"} = violated
           /\ \A j, k \in DOMAIN lastResp.errors :
                lastResp.errors[j] = lastResp.errors[k] => j = k

\* a password that breaks three rules or more has been validated
C23_Witness ==
    /\ Validated
    /\ ~lastResp.valid
    /\ Cardinality(ViolatedRules(lastResp.password, lastResp.username)) >= 3
    /\ Len(lastResp.errors) >= 3

\* C30: a password that passes all hard rules scores at least 50, so its label
\* is never weak and it is never rejected as weak; every score is within 0..100.
C30_RulePassingNeverWeak ==
    Validated =>
        /\ lastResp.score \in 0..100
        /\ ViolatedRules(lastResp.password, lastResp.username) = {}
             => /\ lastResp.score >= 50
                /\ lastResp.strength # "weak"
                /\ lastResp.valid
                /\ lastResp.errors = <<>>

\* a password that passes all hard rules and takes both penalties scores 50
C30_Witness ==
    /\ Validated
    /\ ViolatedRules(lastResp.password, lastResp.username) = {}
    /\ lastResp.score = 50
    /\ HasRepeated(lastResp.password)
    /\ HasSequential(lower(lastResp.password))

\* C22: changePassword persists a new password hash only if currentPassword
\* verifies against the stored hash and validate(newPassword) returns valid; on
\* every rejection the stored hash is unchanged.
C22_ChangePasswordChecked ==
    [][/\ \A i \in DOMAIN users \cap DOMAIN users' :
            users'[i].password_hash # users[i].password_hash
            => /\ lastResp'.op = "change_password"
               /\ lastResp'.status = 200
               /\ verify_password(lastResp'.current_password, users[i].password_hash)
               /\ validate_password(users'[i].password_hash[2], <<>>).valid
       /\ (lastResp'.op = "change_password" /\ lastResp'.status # 200)
            => users' = users]_vars

\* the token passes verification in full at the present time, whatever the
\* library decides where it has a choice / for some decision of the library
PassesForAll(tok) ==
    \A expired \in ExpiredChoices(tok, now), immature \in ImmatureChoices(tok, now) :
        verify_token(tok, SECRET_KEY, PREVIOUS_SECRET_KEY, CURRENT_KEY_VERSION,
                     now, expired, immature).result = "payload"
PassesForSome(tok) ==
    \E expired \in ExpiredChoices(tok, now), immature \in ImmatureChoices(tok, now) :
        verify_token(tok, SECRET_KEY, PREVIOUS_SECRET_KEY, CURRENT_KEY_VERSION,
                     now, expired, immature).result = "payload"

\* C24: a protected endpoint admits a request only if its Authorization header
\* is "Bearer <token>" and the token passes verify_token in full; every other
\* request gets 401; get_current_user and JWTBearer admit the same requests.
C24_SameAdmission ==
    lastReply.op \in {"get_current_user", "JWTBearer"} =>
        LET place == lastReply.presented[1]
            tok == lastReply.presented[2]
        IN /\ lastReply.status \in {200, 401}
           /\ lastReply.status = 200 => (place = "bearer" /\ PassesForSome(tok))
           /\ lastReply.status = 401 => ~(place = "bearer" /\ PassesForAll(tok))

\* C25: a POST /user/profile whose body has only hasCompletedOnboarding leaves
\* the name, email and phone that GET /user/profile returns for that user as
\* they were before the update.
C25_PartialUpdateKeepsFields ==
    [][(/\ lastResp'.op = "save_profile"
        /\ DOMAIN lastResp'.body = {"hasCompletedOnboarding"})
       => get_user_profile(user_profiles', lastResp'.user_id)
            = get_user_profile(user_profiles, lastResp'.user_id)]_vars

\* C26: for every account, under any interleaving of login and unlock-account
\* requests, 0 <= failed_login_attempts <= 5, and locked_until is set exactly
\* when failed_login_attempts = 5.
C26_LockoutFields ==
    \A i \in DOMAIN users :
        /\ users[i].failed_login_attempts \in 0..LOCKOUT_THRESHOLD
        /\ users[i].locked_until # NULL
             <=> users[i].failed_login_attempts = LOCKOUT_THRESHOLD

MismatchDetails == {"Invalid verification code", "Invalid recovery code"}

\* C27: a verify_code, verify_recovery_code or reset_password call with a code
\* that differs from the stored one changes neither the stored codes nor the
\* user rows and counts nothing; the right code is accepted by the call that
\* follows a mismatch.
C27_MismatchChangesNothing ==
    [][/\ lastCode'.detail \in MismatchDetails
            => /\ \E row \in RowsBefore : row.code # lastCode'.code
               /\ UNCHANGED <<verification_codes, lockVars, tokVars, dbVars,
                              now, clockSteps>>
       /\ (/\ lastCode.detail \in MismatchDetails
           /\ lastCode'.op = lastCode.op
           /\ lastCode'.email = lastCode.email
           /\ lastCode'.code_type = lastCode.code_type
           /\ \A row \in RowsBefore : row.code = lastCode'.code)
            => lastCode'.detail \notin
                 MismatchDetails \cup NotFoundDetails \cup ExpiredDetails]_vars

\* a wrong guess has been answered; the code is still stored and not expired
C27_Witness ==
    /\ lastCode.detail \in MismatchDetails
    /\ \E row \in CodeRows(lastCode.email, lastCode.code_type) :
          /\ row.code # lastCode.code
          /\ now <= row.expires_at

\* C28: a successful reset_password changes the password hash of every user
\* row with the given email and deletes the recovery code, and nothing else:
\* failed_login_attempts and locked_until are as before, so a locked account
\* stays locked after its password was reset.
C28_ResetKeepsLock ==
    [][(/\ lastCode'.op = "reset_password"
        /\ lastCode'.status = 200
        /\ lastCode' # lastCode)
       => /\ DOMAIN users' = DOMAIN users
          /\ \E new_password \in NewPasswords :
                \A i \in DOMAIN users :
                    users'[i] =
                      IF users[i].email = lastCode'.email
                      THEN [users[i] EXCEPT !.password_hash =
                                              hash_password(new_password, "salt")]
                      ELSE users[i]
          /\ verification_codes' = verification_codes \ RowsBefore
          /\ RowsBefore # {}
          /\ UNCHANGED <<pc, req, lastResp, evaluated, tokVars, dbVars,
                         now, clockSteps>>]_vars

\* the password of a locked account has been reset, and the account is locked
C28_Witness ==
    /\ lastCode.op = "reset_password"
    /\ lastCode.status = 200
    /\ users[1].password_hash = hash_password("N3w!Passw0rd", "salt")
    /\ users[2].password_hash = hash_password("N3w!Passw0rd", "salt")
    /\ users[1].failed_login_attempts = LOCKOUT_THRESHOLD
    /\ users[1].locked_until # NULL
    /\ StillLocked(users[1].locked_until, now)

\* the token is signed with a key in use and carries a key version in use
KeysAccept(tok) ==
    \/ tok.sig = SECRET_KEY /\ tok.key_version = CURRENT_KEY_VERSION
    \/ /\ tok.sig # SECRET_KEY
       /\ tok.sig = PREVIOUS_SECRET_KEY
       /\ tok.key_version \in {CURRENT_KEY_VERSION, CURRENT_KEY_VERSION - 1}

\* C29: every successful refresh returns a token whose exp is now + 30 days (in
\* whole seconds), whose key version is the current one and which is signed
\* with the current secret, also when the presented token was accepted under
\* the previous key; refresh revokes nothing: the presented token stays valid,
\* and a token is accepted as long as its keys are in use, its exp has not
\* come and its inactivity timeout has not elapsed since it was issued.
C29_RefreshProlongs ==
    [][/\ (lastReply'.op = "refresh" /\ lastReply'.status = 200) =>
            LET new == lastReply'.token
            IN /\ new \in tokens'
               /\ new.exp \div TicksPerSecond = (now' + ExpireTicks) \div TicksPerSecond
               /\ new.key_version = CURRENT_KEY_VERSION'
               /\ new.sig = SECRET_KEY'
               /\ lastReply'.presented \in tokens'
               /\ UNCHANGED <<SECRET_KEY, PREVIOUS_SECRET_KEY, CURRENT_KEY_VERSION>>
       /\ lastVerify'.result # "none" =>
            LET tok == lastVerify'.token
            IN (/\ KeysAccept(tok)
                /\ now' < tok.exp
                /\ now' - IssuedAt(tok) <=
                     (IF tok.remember_me THEN RememberTicks ELSE ActivityTicks))
               => lastVerify'.result = "payload"]_vars

====
